---- MODULE Spec2Model ----
(***************************************************************************)
(* Model of src/collection/system_info.rs: the SystemInfo snapshot         *)
(* (SystemInfo::get), the platform-gated Distribution sub-snapshot         *)
(* (Distribution::try_get / get_inner) and the YAML rendering              *)
(* (SystemInfo::as_yaml).                                                  *)
(*                                                                         *)
(* Encodings.  Option<T>: None is <<>>, Some(v) is <<v>>.  Result<T, E>:   *)
(* Err(_) is <<"Err">>, Ok(v) is <<"Ok", v>>.  A text (String) is a        *)
(* sequence of tokens; the tokens are the document separator "---", the    *)
(* line break "\n", the indentation "  ", the key/value separator ":",     *)
(* the blank " ", keys and scalars.  The pattern "---\n" of as_yaml is     *)
(* the two-token sequence <<"---", "\n">>.                                 *)
(***************************************************************************)
EXTENDS Integers, Sequences, FiniteSets, TLC

VARIABLES
    target_os,   \* the build's cfg(target_os): "linux" or "other"
    serde,       \* behaviour of the serde_yaml build linked into the program
    host,        \* what each OS-facts provider answers on this host
    snapshot,    \* Option<SystemInfo>: the value returned by the last get()
    get_calls,   \* provider calls made by the last get()
    aborted,     \* TRUE once a get() has panicked instead of returning
    dist,        \* Option<Option<Distribution>>: result of the last direct try_get()
    try_calls,   \* provider calls made by the last direct try_get()
    yaml,        \* Option<String>: text returned by the last as_yaml()
    yaml_prev    \* Option<String>: text returned by the as_yaml() before it

vars == <<target_os, serde, host, snapshot, get_calls, aborted, dist, try_calls, yaml, yaml_prev>>

----------------------------------------------------------------------------
(* Bounds *)

\* logical CPU counts range over 0..MaxCores (0 is the provider's fallback)
MaxCores == 1
\* memory and swap totals, in kilobytes, range over 0..MaxKb
MaxKb == 1

----------------------------------------------------------------------------
(* Option and Result *)

None == <<>>
Some(v) == <<v>>
Err == <<"Err">>
Ok(v) == <<"Ok", v>>
IsOk(r) == r[1] = "Ok"

\* Result::ok
ok(r) == IF IsOk(r) THEN Some(r[2]) ELSE None

----------------------------------------------------------------------------
(* The OS-facts providers *)

Providers == {"os_type", "os_release", "mem_info", "gethostname", "num_cores",
              "num_available_cores", "cpu_speed", "linux_os_release"}

NoCalls == [p \in Providers |-> 0]
Call(p) == [q \in Providers |-> IF q = p THEN 1 ELSE 0]
Plus(c1, c2) == [p \in Providers |-> c1[p] + c2[p]]

\* the eleven keys Distribution copies, in declaration order
DistKeys == <<"id", "id_like", "name", "pretty_name", "version", "version_id",
              "version_codename", "cpe_name", "build_id", "variant", "variant_id">>
DistKeySet == {DistKeys[i] : i \in DOMAIN DistKeys}

\* a key of sys_info::LinuxOSReleaseInfo that Distribution does not copy (the `..`)
OtherInfoKeys == {"home_url"}
InfoKeys == DistKeySet \cup OtherInfoKeys

\* a sample os-release value for each key, all distinct
ReleaseValue(k) ==
    CASE k = "id" -> "ubuntu"
      [] k = "id_like" -> "debian"
      [] k = "name" -> "Ubuntu"
      [] k = "pretty_name" -> "Ubuntu 20.04 LTS"
      [] k = "version" -> "20.04 LTS (Focal Fossa)"
      [] k = "version_id" -> "20.04"
      [] k = "version_codename" -> "focal"
      [] k = "cpe_name" -> "cpe:/o:canonical:ubuntu"
      [] k = "build_id" -> "rolling"
      [] k = "variant" -> "Server Edition"
      [] k = "variant_id" -> "server"
      [] OTHER -> "https://www.ubuntu.com/"

\* the parsed descriptor in which exactly the keys of S are present
Descriptor(S) == [k \in InfoKeys |-> IF k \in S THEN Some(ReleaseValue(k)) ELSE None]

sys_info_os_type == host.os_type
sys_info_os_release == host.os_release
sys_info_mem_info == host.mem_info
sys_info_cpu_speed == host.cpu_speed
sys_info_linux_os_release == host.linux_os_release
gethostname == host.gethostname
util_num_cores == host.num_cores
util_num_available_cores == host.num_available_cores

\* OsString::into_string: fails on a name that is not valid Unicode
into_string(os) == IF os.unicode THEN Ok(os.text) ELSE Err

----------------------------------------------------------------------------
(* Distribution *)

\* get_inner with Id and IdLike exchanged
get_inner_swapped ==
    IF target_os = "linux"
    THEN LET r == sys_info_linux_os_release IN
         [value |-> IF IsOk(r)
                    THEN Some([k \in DistKeySet |->
                                  IF k = "id" THEN r[2]["id_like"]
                                  ELSE IF k = "id_like" THEN r[2]["id"]
                                  ELSE r[2][k]])
                    ELSE None,
          calls |-> Call("linux_os_release")]
    ELSE [value |-> None, calls |-> NoCalls]

\* get_inner that turns a failed retrieval into a Distribution of absent keys
get_inner_default ==
    IF target_os = "linux"
    THEN LET r == sys_info_linux_os_release IN
         [value |-> IF IsOk(r)
                    THEN Some([k \in DistKeySet |-> r[2][k]])
                    ELSE Some([k \in DistKeySet |-> None]),
          calls |-> Call("linux_os_release")]
    ELSE [value |-> None, calls |-> NoCalls]

\* get_inner without the platform gate
get_inner_ungated ==
    LET r == sys_info_linux_os_release IN
    [value |-> IF IsOk(r) THEN Some([k \in DistKeySet |-> r[2][k]]) ELSE None,
     calls |-> Call("linux_os_release")]

\* Distribution::get_inner: the cfg(not(target_os = "linux")) and the
\* cfg(target_os = "linux") bodies
get_inner ==
    IF target_os = "linux"
    THEN LET r == sys_info_linux_os_release IN
         [value |-> IF IsOk(r) THEN Some([k \in DistKeySet |-> r[2][k]]) ELSE None,
          calls |-> Call("linux_os_release")]
    ELSE [value |-> None, calls |-> NoCalls]

\* Distribution::try_get
try_get == get_inner

----------------------------------------------------------------------------
(* SystemInfo::get *)

\* Result::map over the Ok arm
map_total(r) == IF IsOk(r) THEN Ok(r[2].total) ELSE r
map_swap_total(r) == IF IsOk(r) THEN Ok(r[2].swap_total) ELSE r

\* the provider calls of one get(), in evaluation order; d is try_get's result
calls_of_get(d) ==
    Plus(Plus(Plus(Call("mem_info"), Call("os_type")),
              Plus(Call("os_release"), d.calls)),
         Plus(Plus(Call("gethostname"), Call("num_cores")),
              Plus(Call("num_available_cores"), Call("cpu_speed"))))

\* get that unwraps the hostname conversion instead of absorbing its error
get_unwrap_hostname ==
    LET mem_info == sys_info_mem_info
        d == try_get
    IN [value |-> [os_type          |-> ok(sys_info_os_type),
                   os_release       |-> ok(sys_info_os_release),
                   distribution     |-> d.value,
                   memory_total     |-> ok(map_total(mem_info)),
                   swap_total       |-> ok(map_swap_total(mem_info)),
                   hostname         |-> ok(into_string(gethostname)),
                   cpu_count        |-> util_num_cores,
                   cpu_online_count |-> util_num_available_cores,
                   cpu_speed        |-> ok(sys_info_cpu_speed)],
        panicked |-> ~IsOk(into_string(gethostname)),
        calls |-> calls_of_get(d)]

\* get that reads both totals from the swap counter
get_swap_for_total ==
    LET mem_info == sys_info_mem_info
        d == try_get
    IN [value |-> [os_type          |-> ok(sys_info_os_type),
                   os_release       |-> ok(sys_info_os_release),
                   distribution     |-> d.value,
                   memory_total     |-> ok(map_swap_total(mem_info)),
                   swap_total       |-> ok(map_swap_total(mem_info)),
                   hostname         |-> ok(into_string(gethostname)),
                   cpu_count        |-> util_num_cores,
                   cpu_online_count |-> util_num_available_cores,
                   cpu_speed        |-> ok(sys_info_cpu_speed)],
        panicked |-> FALSE,
        calls |-> calls_of_get(d)]

\* get that drops the release string whenever the OS type is unknown
get_release_needs_type ==
    LET mem_info == sys_info_mem_info
        d == try_get
    IN [value |-> [os_type          |-> ok(sys_info_os_type),
                   os_release       |-> IF IsOk(sys_info_os_type)
                                        THEN ok(sys_info_os_release) ELSE None,
                   distribution     |-> d.value,
                   memory_total     |-> ok(map_total(mem_info)),
                   swap_total       |-> ok(map_swap_total(mem_info)),
                   hostname         |-> ok(into_string(gethostname)),
                   cpu_count        |-> util_num_cores,
                   cpu_online_count |-> util_num_available_cores,
                   cpu_speed        |-> ok(sys_info_cpu_speed)],
        panicked |-> FALSE,
        calls |-> calls_of_get(d)]

\* SystemInfo::get.  Every Result in the body goes through ok(): there is no
\* unwrap, expect or `?`, so no path panics or returns an error.
get ==
    LET mem_info == sys_info_mem_info
        d == try_get
    IN [value |-> [os_type          |-> ok(sys_info_os_type),
                   os_release       |-> ok(sys_info_os_release),
                   distribution     |-> d.value,
                   memory_total     |-> ok(map_total(mem_info)),
                   swap_total       |-> ok(map_swap_total(mem_info)),
                   hostname         |-> ok(into_string(gethostname)),
                   cpu_count        |-> util_num_cores,
                   cpu_online_count |-> util_num_available_cores,
                   cpu_speed        |-> ok(sys_info_cpu_speed)],
        panicked |-> FALSE,
        calls |-> calls_of_get(d)]

----------------------------------------------------------------------------
(* SystemInfo::as_yaml *)

\* the fields of SystemInfo, in declaration order
SystemInfoFields == <<"os_type", "os_release", "distribution", "memory_total",
                      "swap_total", "hostname", "cpu_count", "cpu_online_count",
                      "cpu_speed">>

\* serde(rename_all = "PascalCase")
PascalCase(f) ==
    CASE f = "os_type" -> "OsType"
      [] f = "os_release" -> "OsRelease"
      [] f = "distribution" -> "Distribution"
      [] f = "memory_total" -> "MemoryTotal"
      [] f = "swap_total" -> "SwapTotal"
      [] f = "hostname" -> "Hostname"
      [] f = "cpu_count" -> "CpuCount"
      [] f = "cpu_online_count" -> "CpuOnlineCount"
      [] f = "cpu_speed" -> "CpuSpeed"
      [] f = "id" -> "Id"
      [] f = "id_like" -> "IdLike"
      [] f = "name" -> "Name"
      [] f = "pretty_name" -> "PrettyName"
      [] f = "version" -> "Version"
      [] f = "version_id" -> "VersionId"
      [] f = "version_codename" -> "VersionCodename"
      [] f = "cpe_name" -> "CpeName"
      [] f = "build_id" -> "BuildId"
      [] f = "variant" -> "Variant"
      [] f = "variant_id" -> "VariantId"

\* the YAML null scalar
Null == "~"

\* an Option<String> and an Option<u64> (or a u64 wrapped in Some) as a scalar
str_scalar(o) == IF o = None THEN Null ELSE o[1]
num_scalar(o) == IF o = None THEN Null ELSE ToString(o[1])

\* one `Key: scalar` line, without its line break
Entry(indent, f, scalar) == indent \o <<PascalCase(f), ":", " ", scalar>>

\* the lines of a serialized Distribution, nested one level
DistributionLines(d) ==
    [i \in DOMAIN DistKeys |-> Entry(<<"  ">>, DistKeys[i], str_scalar(d[DistKeys[i]]))]

\* the lines of one field of a serialized SystemInfo
FieldLines(self, f) ==
    CASE f = "distribution" ->
            IF self[f] = None
            THEN <<Entry(<<>>, f, Null)>>
            ELSE << <<PascalCase(f), ":">> >> \o DistributionLines(self[f][1])
      [] f \in {"os_type", "os_release", "hostname"} ->
            <<Entry(<<>>, f, str_scalar(self[f]))>>
      [] f \in {"cpu_count", "cpu_online_count"} ->
            <<Entry(<<>>, f, num_scalar(Some(self[f])))>>
      [] OTHER ->
            <<Entry(<<>>, f, num_scalar(self[f]))>>

RECURSIVE Concat(_)
\* the concatenation of a sequence of sequences
Concat(ss) == IF ss = <<>> THEN <<>> ELSE Head(ss) \o Concat(Tail(ss))

RECURSIVE Join(_)
\* the lines of a text, separated by line breaks
Join(lines) ==
    IF lines = <<>> THEN <<>>
    ELSE IF Len(lines) = 1 THEN lines[1]
    ELSE lines[1] \o <<"\n">> \o Join(Tail(lines))

\* the behaviours of serde_yaml::to_string across the builds of the crate:
\* it fails or it succeeds; its output opens with a "---\n" line or not, and
\* ends with a line break of its own or not
SerdeBuilds ==
    {[fail |-> TRUE, sep |-> FALSE, nl |-> FALSE]}
    \cup [fail : {FALSE}, sep : BOOLEAN, nl : BOOLEAN]

\* to_string that leaves out the fields that are None
to_string_skip_none(self) ==
    IF serde.fail THEN Err
    ELSE Ok((IF serde.sep THEN <<"---", "\n">> ELSE <<>>)
            \o Join(Concat([i \in DOMAIN SystemInfoFields |->
                       IF /\ SystemInfoFields[i] \notin {"cpu_count", "cpu_online_count"}
                          /\ self[SystemInfoFields[i]] = None
                       THEN <<>>
                       ELSE FieldLines(self, SystemInfoFields[i])]))
            \o (IF serde.nl THEN <<"\n">> ELSE <<>>))

\* serde_yaml::to_string(self) under derive(Serialize): a mapping with one
\* entry per field, in declaration order, None written as the null scalar
to_string(self) ==
    IF serde.fail THEN Err
    ELSE Ok((IF serde.sep THEN <<"---", "\n">> ELSE <<>>)
            \o Join(Concat([i \in DOMAIN SystemInfoFields |->
                       FieldLines(self, SystemInfoFields[i])]))
            \o (IF serde.nl THEN <<"\n">> ELSE <<>>))

\* Result::unwrap_or_else with a closure returning dflt
unwrap_or_else(r, dflt) == IF IsOk(r) THEN r[2] ELSE dflt

StartsWith(s, pat) == Len(s) >= Len(pat) /\ SubSeq(s, 1, Len(pat)) = pat

RECURSIVE trim_start_matches(_, _)
\* str::trim_start_matches: removes every leading repetition of pat
trim_start_matches(s, pat) ==
    IF StartsWith(s, pat)
    THEN trim_start_matches(SubSeq(s, Len(pat) + 1, Len(s)), pat)
    ELSE s

\* as_yaml whose fallback on a formatter error is the null document
as_yaml_null_fallback(self) ==
    LET serde_output == unwrap_or_else(to_string(self), <<Null>>)
    IN  trim_start_matches(serde_output, <<"---", "\n">>) \o <<"\n">>

\* as_yaml that writes into the buffer of the previous rendering
as_yaml_reused_buffer(self) ==
    LET serde_output == unwrap_or_else(to_string(self), <<>>)
    IN  (IF yaml = None THEN <<>> ELSE yaml[1])
        \o trim_start_matches(serde_output, <<"---", "\n">>) \o <<"\n">>

\* SystemInfo::as_yaml
as_yaml(self) ==
    LET serde_output == unwrap_or_else(to_string(self), <<>>)
    IN  trim_start_matches(serde_output, <<"---", "\n">>) \o <<"\n">>

----------------------------------------------------------------------------
(* The hosts explored *)

TargetOs == {"linux", "other"}

OsName(t) == IF t = "linux" THEN "Linux" ELSE "Darwin"

\* a host name that is valid Unicode and one that is not
OsStrings == {[unicode |-> TRUE, text |-> "node1"], [unicode |-> FALSE, text |-> "node?"]}

\* the two counters of sys_info::MemInfo that get() reads
MemInfos == [total : 0..MaxKb, swap_total : 0..MaxKb]

\* every combination of provider outcomes, the os-release descriptor being
\* unreadable or complete
HostsByOutcome(t) ==
    [os_type             : {Err, Ok(OsName(t))},
     os_release          : {Err, Ok("5.4.0")},
     mem_info            : {Err} \cup {Ok(m) : m \in MemInfos},
     gethostname         : OsStrings,
     num_cores           : 0..MaxCores,
     num_available_cores : 0..MaxCores,
     cpu_speed           : {Err, Ok(2400)},
     linux_os_release    : {Err, Ok(Descriptor(InfoKeys))}]

\* every subset of the eleven keys in the descriptor, the other providers answering
HostsByDescriptor(t) ==
    {[os_type             |-> Ok(OsName(t)),
      os_release          |-> Ok("5.4.0"),
      mem_info            |-> Ok([total |-> MaxKb, swap_total |-> 0]),
      gethostname         |-> [unicode |-> TRUE, text |-> "node1"],
      num_cores           |-> MaxCores,
      num_available_cores |-> MaxCores,
      cpu_speed           |-> Ok(2400),
      linux_os_release    |-> Ok(Descriptor(S \cup OtherInfoKeys))] : S \in SUBSET DistKeySet}

----------------------------------------------------------------------------
(* The state machine *)

\* the build whose formatter opens with "---\n" and adds no final line break
SeparatorBuild == [fail |-> FALSE, sep |-> TRUE, nl |-> FALSE]

\* Nothing has been called yet.  Two families of programs are explored: every
\* build on every combination of provider outcomes, and the Linux build on
\* every descriptor.
Init ==
    /\ \/ /\ target_os \in TargetOs
          /\ serde \in SerdeBuilds
          /\ host \in HostsByOutcome(target_os)
       \/ /\ target_os = "linux"
          /\ serde = SeparatorBuild
          /\ host \in HostsByDescriptor(target_os)
    /\ snapshot = None
    /\ get_calls = NoCalls
    /\ aborted = FALSE
    /\ dist = None
    /\ try_calls = NoCalls
    /\ yaml = None
    /\ yaml_prev = None

\* a caller invokes SystemInfo::get()
Get ==
    LET r == get IN
    /\ snapshot' = IF r.panicked THEN None ELSE Some(r.value)
    /\ aborted' = (aborted \/ r.panicked)
    /\ get_calls' = r.calls
    /\ UNCHANGED <<target_os, serde, host, dist, try_calls, yaml, yaml_prev>>

\* a caller invokes Distribution::try_get()
TryGet ==
    LET r == try_get IN
    /\ dist' = Some(r.value)
    /\ try_calls' = r.calls
    /\ UNCHANGED <<target_os, serde, host, snapshot, get_calls, aborted, yaml, yaml_prev>>

\* a caller invokes as_yaml() on the snapshot it holds
AsYaml ==
    /\ snapshot # None
    /\ yaml' = Some(as_yaml(snapshot[1]))
    /\ yaml_prev' = yaml
    /\ UNCHANGED <<target_os, serde, host, snapshot, get_calls, aborted, dist, try_calls>>

Next == Get \/ TryGet \/ AsYaml

Spec == Init /\ [][Next]_vars

----------------------------------------------------------------------------
(* Vocabulary of the properties *)

Option(S) == {None} \cup {Some(v) : v \in S}

\* d is a value of the type Distribution: eleven keys, each None or Some
IsDistribution(d) ==
    /\ DOMAIN d = DistKeySet
    /\ \A k \in DistKeySet : d[k] \in Option({ReleaseValue(k)})

\* s is a value of the type SystemInfo, over the values the hosts can supply
IsSystemInfo(s) ==
    /\ DOMAIN s = {SystemInfoFields[i] : i \in DOMAIN SystemInfoFields}
    /\ s.os_type \in Option({OsName(t) : t \in TargetOs})
    /\ s.os_release \in Option({"5.4.0"})
    /\ s.distribution = None \/ (Len(s.distribution) = 1 /\ IsDistribution(s.distribution[1]))
    /\ s.memory_total \in Option(0..MaxKb)
    /\ s.swap_total \in Option(0..MaxKb)
    /\ s.hostname \in Option({"node1"})
    /\ s.cpu_count \in 0..MaxCores
    /\ s.cpu_online_count \in 0..MaxCores
    /\ s.cpu_speed \in Option({2400})

OptionalFields == {"os_type", "os_release", "distribution", "memory_total",
                   "swap_total", "hostname", "cpu_speed"}

\* the retrievals that can fail, and the fields each one feeds
Retrievals == {"os_type", "os_release", "linux_os_release", "mem_info",
               "gethostname", "cpu_speed"}

RetrievalOf(f) ==
    CASE f = "os_type" -> "os_type"
      [] f = "os_release" -> "os_release"
      [] f = "distribution" -> "linux_os_release"
      [] f = "memory_total" -> "mem_info"
      [] f = "swap_total" -> "mem_info"
      [] f = "hostname" -> "gethostname"
      [] f = "cpu_speed" -> "cpu_speed"

\* the retrieval p succeeds on this host and build; the descriptor retrieval
\* counts as failing on a build that has none
Succeeds(p) ==
    CASE p = "gethostname" -> host.gethostname.unicode
      [] p = "linux_os_release" -> target_os = "linux" /\ IsOk(host.linux_os_release)
      [] OTHER -> IsOk(host[p])

\* the value the provider returned for field f, when its retrieval succeeds
Provided(f) ==
    CASE f = "os_type" -> Some(host.os_type[2])
      [] f = "os_release" -> Some(host.os_release[2])
      [] f = "distribution" ->
            Some([k \in DistKeySet |-> host.linux_os_release[2][k]])
      [] f = "memory_total" -> Some(host.mem_info[2].total)
      [] f = "swap_total" -> Some(host.mem_info[2].swap_total)
      [] f = "hostname" -> Some(host.gethostname.text)
      [] f = "cpu_speed" -> Some(host.cpu_speed[2])

AllRetrievalsFail == \A p \in Retrievals : ~Succeeds(p)

\* the optional fields that are absent in snapshot s
Absent(s) == {f \in OptionalFields : s[f] = None}

\* the positions of text t that open a line with a top-level key
KeyPositions(t) ==
    SelectSeq([i \in 1..Len(t) |-> i],
              LAMBDA i : /\ (i = 1 \/ t[i - 1] = "\n")
                         /\ t[i] \notin {"\n", "  ", "---"})

\* the top-level keys of text t, in order of appearance
TopLevelKeys(t) == [n \in DOMAIN KeyPositions(t) |-> t[KeyPositions(t)[n]]]

DeclaredKeys == [i \in DOMAIN SystemInfoFields |-> PascalCase(SystemInfoFields[i])]

\* in text t the line that opens at position i reads `Key: ~`
IsNullLine(t, i) ==
    /\ i + 4 <= Len(t)
    /\ SubSeq(t, i + 1, i + 4) = <<":", " ", Null, "\n">>

----------------------------------------------------------------------------
(* Properties *)

\* C1: whatever the providers answer, all failing included, get() returns a
\* snapshot and never panics; the snapshot is a value of SystemInfo whose
\* cpu_count and cpu_online_count are the numbers the provider returned and
\* whose other fields are each None or Some.
C1_GetNeverFails ==
    /\ ~aborted
    /\ get_calls # NoCalls =>
          /\ snapshot # None
          /\ IsSystemInfo(snapshot[1])
          /\ snapshot[1].cpu_count = host.num_cores
          /\ snapshot[1].cpu_online_count = host.num_available_cores

C1_Witness ==
    /\ AllRetrievalsFail
    /\ host.num_cores = 0 /\ host.num_available_cores = 0
    /\ snapshot # None
    /\ Absent(snapshot[1]) = OptionalFields

\* C2 as claimed: for each optional field, when the retrieval behind it fails
\* and every other retrieval succeeds, that field alone is absent and every
\* other optional field holds what the provider returned.
C2_SingleFieldAbsent ==
    snapshot # None =>
        \A f \in OptionalFields :
            (/\ ~Succeeds(RetrievalOf(f))
             /\ \A p \in Retrievals \ {RetrievalOf(f)} : Succeeds(p))
            => /\ Absent(snapshot[1]) = {f}
               /\ \A g \in OptionalFields \ {f} : snapshot[1][g] = Provided(g)

\* C2 as amended: for each retrieval, when it fails and every other retrieval
\* succeeds, exactly the fields it feeds are absent (memory_total and
\* swap_total together for mem_info) and every other optional field holds
\* what the provider returned.
C2_SingleRetrievalAbsent ==
    snapshot # None =>
        \A p \in Retrievals :
            (/\ ~Succeeds(p)
             /\ \A q \in Retrievals \ {p} : Succeeds(q))
            => /\ Absent(snapshot[1]) = {f \in OptionalFields : RetrievalOf(f) = p}
               /\ \A g \in OptionalFields :
                     RetrievalOf(g) # p => snapshot[1][g] = Provided(g)

C2_Witness ==
    /\ snapshot # None
    /\ ~Succeeds("os_type")
    /\ \A q \in Retrievals \ {"os_type"} : Succeeds(q)
    /\ Absent(snapshot[1]) = {"os_type"}

\* C3: memory_total and swap_total are both present or both absent; get()
\* queries mem_info exactly once; both are None when it fails, and they are
\* its total and swap_total when it succeeds.
C3_MemorySwapCoupled ==
    snapshot # None =>
        /\ (snapshot[1].memory_total = None) <=> (snapshot[1].swap_total = None)
        /\ get_calls["mem_info"] = 1
        /\ ~IsOk(host.mem_info) =>
              snapshot[1].memory_total = None /\ snapshot[1].swap_total = None
        /\ IsOk(host.mem_info) =>
              /\ snapshot[1].memory_total = Some(host.mem_info[2].total)
              /\ snapshot[1].swap_total = Some(host.mem_info[2].swap_total)

C3_Witness ==
    /\ snapshot # None
    /\ IsOk(host.mem_info)
    /\ host.mem_info[2].total # host.mem_info[2].swap_total
    /\ snapshot[1].memory_total # snapshot[1].swap_total

\* C4: the text returned by as_yaml does not begin with the document
\* separator and ends with exactly one line break, whatever the formatter
\* emitted.
C4_NoSeparatorOneNewline ==
    yaml # None =>
        LET t == yaml[1] IN
        /\ ~StartsWith(t, <<"---">>)
        /\ Len(t) >= 1 /\ t[Len(t)] = "\n"
        /\ Len(t) >= 2 => t[Len(t) - 1] # "\n"

\* C5: when the formatter fails, as_yaml still returns, and what it returns
\* is the empty document: no key and no scalar, only the closing line break.
C5_EmptyDocumentOnFault ==
    (serde.fail /\ yaml # None) => yaml[1] = <<"\n">>

C5_Witness == serde.fail /\ snapshot # None /\ yaml # None

\* C6: on a Linux build, when the descriptor retrieval fails, try_get returns
\* None and the snapshot's distribution is None; a Distribution is produced
\* only from a retrieval that succeeded.
C6_FailedDescriptorYieldsNone ==
    /\ (target_os = "linux" /\ ~IsOk(host.linux_os_release)) =>
          /\ dist # None => dist[1] = None
          /\ snapshot # None => snapshot[1].distribution = None
    /\ (dist # None /\ dist[1] # None) => IsOk(host.linux_os_release)
    /\ (snapshot # None /\ snapshot[1].distribution # None) => IsOk(host.linux_os_release)

C6_Witness ==
    /\ target_os = "linux" /\ ~IsOk(host.linux_os_release)
    /\ dist = Some(None)
    /\ snapshot # None /\ snapshot[1].distribution = None

\* C7: on a non-Linux build, try_get returns None, the snapshot's
\* distribution is None, and neither try_get nor get queries the os-release
\* descriptor.
C7_NonLinuxNeverQueries ==
    target_os # "linux" =>
        /\ dist # None => dist[1] = None
        /\ snapshot # None => snapshot[1].distribution = None
        /\ try_calls["linux_os_release"] = 0
        /\ get_calls["linux_os_release"] = 0

C7_Witness ==
    /\ target_os # "linux" /\ IsOk(host.linux_os_release)
    /\ dist = Some(None) /\ try_calls = NoCalls
    /\ snapshot # None /\ get_calls["os_type"] = 1

\* C8: on a Linux build with a parsed descriptor, the Distribution returned
\* by try_get holds, for each of the eleven keys, exactly the descriptor's
\* entry for that key: present with the same value, or absent.
C8_DescriptorCopiedKeyByKey ==
    (target_os = "linux" /\ IsOk(host.linux_os_release) /\ dist # None) =>
        /\ dist[1] # None
        /\ DOMAIN dist[1][1] = DistKeySet
        /\ \A k \in DistKeySet : dist[1][1][k] = host.linux_os_release[2][k]

C8_Witness ==
    /\ target_os = "linux" /\ IsOk(host.linux_os_release)
    /\ dist # None /\ dist[1] # None
    /\ dist[1][1]["id"] = Some("ubuntu")
    /\ dist[1][1]["id_like"] = None
    /\ dist[1][1]["variant_id"] = Some("server")

\* C9: when the formatter succeeds, the rendered text lists the nine
\* top-level keys in declaration order whatever fields are present, and each
\* absent field's line carries the null scalar.
C9_AllKeysInDeclaredOrder ==
    (yaml # None /\ ~serde.fail /\ snapshot # None) =>
        LET t == yaml[1]
            pos == KeyPositions(t)
        IN  /\ TopLevelKeys(t) = DeclaredKeys
            /\ \A i \in DOMAIN SystemInfoFields :
                  (/\ SystemInfoFields[i] \in OptionalFields
                   /\ snapshot[1][SystemInfoFields[i]] = None)
                  => IsNullLine(t, pos[i])

C9_Witness ==
    /\ yaml # None /\ ~serde.fail /\ snapshot # None
    /\ Absent(snapshot[1]) = OptionalFields
    /\ TopLevelKeys(yaml[1]) = DeclaredKeys

====
